---------------------------- MODULE Spec2Model ----------------------------
(***************************************************************************)
(* N64 emulator save converter (save-converter, package main).             *)
(*                                                                         *)
(* One run of the program: main validates the two paths it is given,       *)
(* identifies the cartridge image (processRom), derives the output file    *)
(* name and then either byte-swaps the save (convertSaveFile) or copies /  *)
(* size-normalises it (copyFile).                                          *)
(*                                                                         *)
(* Representation.                                                         *)
(*  - A byte is a number in 0..255, a string a sequence of character       *)
(*    codes (Go strings are byte sequences).                               *)
(*  - The cartridge image is an explicit byte sequence.                    *)
(*  - The content of a save file is a byte string kept run-length encoded: *)
(*    a sequence of runs [b |-> byte, n |-> count], n >= 1, neighbouring   *)
(*    runs holding different bytes.  The encoding is canonical, so two     *)
(*    contents are equal exactly when the byte strings are equal, and it   *)
(*    lets the model keep the program's real sizes (32 KiB, 128 KiB,       *)
(*    256 KiB).                                                            *)
(*  - crypto/sha256 is replaced by a DigestLen-byte checksum; the "%X"     *)
(*    rendering of the digest is modelled as the code does it.             *)
(*  - The operating system never fails an open, read or write of a file    *)
(*    that main has validated; the errors modelled are the ones the        *)
(*    program itself produces.                                             *)
(***************************************************************************)
EXTENDS Integers, Sequences, FiniteSets, TLC

---------------------------------------------------------------------------
(* Bounds of the model. *)

\* Save payloads of 0..MaxSmallLen bytes are enumerated byte by byte.
MaxSmallLen == 9

\* Large payloads are taken within MaxDelta bytes of each size threshold.
MaxDelta == 1

\* Bytes of cartridge image after the 64-byte header.
RomBodyLen == 2

\* Bytes of the stand-in digest (crypto/sha256 yields 32).
DigestLen == 2

---------------------------------------------------------------------------
(* Program constants. *)

maxSaveFileSize == 256 * 1024

maxRomFileSize == 64 * 1024 * 1024

fullmempakSize == 128 * 1024

mempakSize == 32 * 1024

\* make([]byte, 0x40) and the title field convHeader[0x20 : 0x20+20]
HeaderLen == 64

TitleOffset == 32

TitleLen == 20

---------------------------------------------------------------------------
(* Strings as sequences of character codes. *)

SPACE == 32

DASH == 45

\* ".eep" ".eeprom" ".fla" ".flash" ".mpk" ".pak" ".ram" ".sra"
EXT_EEP == <<46, 101, 101, 112>>

EXT_EEPROM == <<46, 101, 101, 112, 114, 111, 109>>

EXT_FLA == <<46, 102, 108, 97>>

EXT_FLASH == <<46, 102, 108, 97, 115, 104>>

EXT_MPK == <<46, 109, 112, 107>>

EXT_PAK == <<46, 112, 97, 107>>

EXT_RAM == <<46, 114, 97, 109>>

EXT_SRA == <<46, 115, 114, 97>>

\* ".txt": an extension no table knows
EXT_TXT == <<46, 116, 120, 116>>

\* ".z64" ".n64" ".v64"
EXT_Z64 == <<46, 122, 54, 52>>

EXT_N64 == <<46, 110, 54, 52>>

EXT_V64 == <<46, 118, 54, 52>>

allowedSaveExtensions ==
    {EXT_EEP, EXT_EEPROM, EXT_FLA, EXT_FLASH, EXT_MPK, EXT_PAK, EXT_RAM, EXT_SRA}

allowedRomExtensions == {EXT_Z64, EXT_N64, EXT_V64}

\* romFormats: mode -> magic bytes
romFormats ==
    [z64 |-> <<128, 55, 18, 64>>,
     n64 |-> <<64, 18, 55, 128>>,
     v64 |-> <<55, 128, 64, 18>>]

\* aresSaveFormatMap, as the set of its (key, value) pairs
aresSaveFormatMap ==
    {<<EXT_EEPROM, EXT_EEP>>, <<EXT_FLASH, EXT_FLA>>,
     <<EXT_PAK, EXT_MPK>>, <<EXT_RAM, EXT_SRA>>}

nonConversionExtensions ==
    {EXT_EEP, EXT_EEPROM, EXT_FLASH, EXT_MPK, EXT_PAK, EXT_RAM}

ConversionExtensions == {EXT_FLA, EXT_SRA}

\* filepath.Ext: the suffix beginning at the last dot of the last path
\* element, empty when there is none (the model's paths hold no separator).
RECURSIVE LastDot(_, _)
LastDot(path, i) ==
    IF i = 0 THEN 0
    ELSE IF path[i] = 46 THEN i
    ELSE LastDot(path, i - 1)

Ext(path) ==
    LET d == LastDot(path, Len(path))
    IN  IF d = 0 THEN <<>> ELSE SubSeq(path, d, Len(path))

---------------------------------------------------------------------------
(* Run-length encoded byte strings. *)

\* len(data)
RECURSIVE ByteLen(_)
ByteLen(c) ==
    IF c = <<>> THEN 0 ELSE c[1].n + ByteLen(Tail(c))

\* append(a, b...): the bytes of a followed by the bytes of b
Concat(a, b) ==
    IF a = <<>> THEN b
    ELSE IF b = <<>> THEN a
    ELSE IF a[Len(a)].b = b[1].b
         THEN SubSeq(a, 1, Len(a) - 1)
              \o <<[b |-> b[1].b, n |-> a[Len(a)].n + b[1].n]>>
              \o Tail(b)
         ELSE a \o b

\* make([]byte, k): k zero bytes
Zeros(k) ==
    IF k = 0 THEN <<>> ELSE <<[b |-> 0, n |-> k]>>

\* data[:k], for k <= len(data)
RECURSIVE Slice(_, _)
Slice(c, k) ==
    IF k = 0 \/ c = <<>> THEN <<>>
    ELSE IF c[1].n >= k THEN <<[b |-> c[1].b, n |-> k]>>
    ELSE <<c[1]>> \o Slice(Tail(c), k - c[1].n)

\* data[i], i counted from 1
RECURSIVE ByteAt(_, _)
ByteAt(c, i) ==
    IF i <= c[1].n THEN c[1].b ELSE ByteAt(Tail(c), i - c[1].n)

\* the encoding of an explicit byte sequence
RECURSIVE Encode(_)
Encode(bytes) ==
    IF bytes = <<>> THEN <<>>
    ELSE Concat(<<[b |-> bytes[1], n |-> 1]>>, Encode(Tail(bytes)))

---------------------------------------------------------------------------
(* encoding/binary.  A uint32 or uint16 is held as its base-256 digits,     *)
(* most significant first (TLC's integers are 32-bit signed and cannot     *)
(* hold every uint32).                                                     *)

BigEndianUint32(b) ==
    <<b[1], b[2], b[3], b[4]>>

LittleEndianUint32(b) ==
    <<b[4], b[3], b[2], b[1]>>

BigEndianPutUint32(v) ==
    <<v[1], v[2], v[3], v[4]>>

\* Faulty variant: the two halfwords exchanged, the bytes within them kept.
LittleEndianPutUint32Halfwords(v) ==
    <<v[3], v[4], v[1], v[2]>>

LittleEndianPutUint32(v) ==
    <<v[4], v[3], v[2], v[1]>>

LittleEndianUint16(b) ==
    <<b[2], b[1]>>

BigEndianPutUint16(v) ==
    <<v[1], v[2]>>

---------------------------------------------------------------------------
(* Cartridge identification. *)

NoError == "nil"

ErrReadingRomHeader == "Error reading ROM header"

ErrUnsupportedRomFormat == "Error unsupported ROM format based on magic bytes"

\* Faulty variant: an unknown magic falls back to the big-endian mode.
detectRomFormatFallback(magicBytes) ==
    LET hits == {mode \in DOMAIN romFormats : magicBytes = romFormats[mode]}
    IN  IF hits # {}
        THEN [mode |-> CHOOSE mode \in hits : TRUE, err |-> NoError]
        ELSE [mode |-> "z64", err |-> NoError]

\* detectRomFormat: the mode whose magic equals magicBytes, or an error.
detectRomFormat(magicBytes) ==
    LET hits == {mode \in DOMAIN romFormats : magicBytes = romFormats[mode]}
    IN  IF hits # {}
        THEN [mode |-> CHOOSE mode \in hits : TRUE, err |-> NoError]
        ELSE [mode |-> "", err |-> ErrUnsupportedRomFormat]

\* for i := 0; i < len(rawHeader); i += 4 { PutUint32(conv[i:i+4], Uint32(raw[i:i+4])) }
RECURSIVE SwapWords(_, _)
SwapWords(rawHeader, i) ==
    IF i >= Len(rawHeader) THEN <<>>
    ELSE BigEndianPutUint32(LittleEndianUint32(SubSeq(rawHeader, i + 1, i + 4)))
         \o SwapWords(rawHeader, i + 4)

\* for i := 0; i < len(rawHeader); i += 2 { PutUint16(conv[i:i+2], Uint16(raw[i:i+2])) }
RECURSIVE SwapHalfwords(_, _)
SwapHalfwords(rawHeader, i) ==
    IF i >= Len(rawHeader) THEN <<>>
    ELSE BigEndianPutUint16(LittleEndianUint16(SubSeq(rawHeader, i + 1, i + 2)))
         \o SwapHalfwords(rawHeader, i + 2)

\* Faulty variant: the big-endian case forgets the copy and leaves the
\* zero-filled buffer.
convertHeaderEndiannessNoCopy(rawHeader, romMode) ==
    CASE romMode = "n64" -> SwapWords(rawHeader, 0)
      [] romMode = "v64" -> SwapHalfwords(rawHeader, 0)
      [] OTHER -> [i \in 1..Len(rawHeader) |-> 0]

convertHeaderEndianness(rawHeader, romMode) ==
    CASE romMode = "z64" -> rawHeader
      [] romMode = "n64" -> SwapWords(rawHeader, 0)
      [] romMode = "v64" -> SwapHalfwords(rawHeader, 0)
      [] OTHER -> [i \in 1..Len(rawHeader) |-> 0]

\* bytes.TrimRight(titleField, " ")
RECURSIVE TrimRightSpaces(_)
TrimRightSpaces(bytes) ==
    IF bytes # <<>> /\ bytes[Len(bytes)] = SPACE
    THEN TrimRightSpaces(SubSeq(bytes, 1, Len(bytes) - 1))
    ELSE bytes

\* (r >= 'A' && r <= 'Z') || (r >= 'a' && r <= 'z') || (r >= '0' && r <= '9') || r == ' '
IsTitleRune(r) ==
    \/ (r >= 65 /\ r <= 90)
    \/ (r >= 97 /\ r <= 122)
    \/ (r >= 48 /\ r <= 57)
    \/ r = SPACE

\* The loop over the runes of the title.  A byte >= 0x80 decodes to a rune
\* >= 0x80 (or to U+FFFD), which the test rejects like the byte itself.
RECURSIVE KeepTitleRunes(_)
KeepTitleRunes(title) ==
    IF title = <<>> THEN <<>>
    ELSE (IF IsTitleRune(title[1]) THEN <<title[1]>> ELSE <<>>)
         \o KeepTitleRunes(Tail(title))

extractCleanTitle(convHeader) ==
    LET titleField == SubSeq(convHeader, TitleOffset + 1, TitleOffset + TitleLen)
        titleBytes == TrimRightSpaces(titleField)
    IN  KeepTitleRunes(titleBytes)

\* Stand-in for sha256: byte k of the digest is a weighted sum of the file.
RECURSIVE WeightedSum(_, _, _)
WeightedSum(bytes, i, k) ==
    IF i > Len(bytes) THEN k
    ELSE (bytes[i] * (i + k) + WeightedSum(bytes, i + 1, k)) % 256

Digest(bytes) ==
    [k \in 1..DigestLen |-> WeightedSum(bytes, 1, k)]

\* One digit of "%X": 0-9, A-F
HexDigit(d) ==
    IF d < 10 THEN 48 + d ELSE 55 + d

\* fmt.Sprintf("%X", hashSum): two upper-case digits a byte, no separator
RECURSIVE HexUpper(_)
HexUpper(bytes) ==
    IF bytes = <<>> THEN <<>>
    ELSE <<HexDigit(bytes[1] \div 16), HexDigit(bytes[1] % 16)>> \o HexUpper(Tail(bytes))

computeSHA256(romBytes) ==
    HexUpper(Digest(romBytes))

\* Faulty variant: the error of io.ReadFull is ignored and a short image is
\* identified from the bytes read, the rest of the buffer left zero.
processRomIgnoreShortRead(romBytes) ==
    LET rawHeader == [i \in 1..HeaderLen |->
                         IF i <= Len(romBytes) THEN romBytes[i] ELSE 0]
        fmt == detectRomFormat(SubSeq(rawHeader, 1, 4))
    IN  IF fmt.err # NoError
        THEN [cleanTitle |-> <<>>, hashHex |-> <<>>, err |-> fmt.err]
        ELSE [cleanTitle |-> extractCleanTitle(
                                 convertHeaderEndianness(rawHeader, fmt.mode)),
              hashHex |-> computeSHA256(romBytes),
              err |-> NoError]

\* processRom on a cartridge image holding romBytes.
processRom(romBytes) ==
    IF Len(romBytes) < HeaderLen
    THEN [cleanTitle |-> <<>>, hashHex |-> <<>>, err |-> ErrReadingRomHeader]
    ELSE LET rawHeader == SubSeq(romBytes, 1, HeaderLen)
             fmt == detectRomFormat(SubSeq(rawHeader, 1, 4))
         IN  IF fmt.err # NoError
             THEN [cleanTitle |-> <<>>, hashHex |-> <<>>, err |-> fmt.err]
             ELSE [cleanTitle |-> extractCleanTitle(
                                      convertHeaderEndianness(rawHeader, fmt.mode)),
                   hashHex |-> computeSHA256(romBytes),
                   err |-> NoError]

---------------------------------------------------------------------------
(* Save transformation.  A file system maps each existing path to the      *)
(* content of its file.                                                    *)

ErrReadingSaveFile == "Error reading save file"

ErrUnexpectedReadSize == "Error unexpected read size from save file"

ErrSourceEmpty == "Error source file is empty"

\* os.Create(path): the file is created, or truncated when it exists.
Create(fsys, path) ==
    (path :> <<>>) @@ fsys

\* file.Write(data) on a handle opened by Create: data is appended.
Write(fsys, path, data) ==
    [fsys EXCEPT ![path] = Concat(@, data)]

\* Faulty variant: a short last read is reported as a plain end of file.
ReadFullShortIsEOF(data, off) ==
    LET left == ByteLen(data) - off
    IN  IF left < 4
        THEN [n |-> left, err |-> "EOF",
              buf |-> [k \in 1..left |-> ByteAt(data, off + k)]]
        ELSE [n |-> 4, err |-> NoError,
              buf |-> [k \in 1..4 |-> ByteAt(data, off + k)]]

\* io.ReadFull(inFile, buf) with the handle at offset off and len(buf) = 4:
\* io.EOF when no byte is left, io.ErrUnexpectedEOF when fewer than 4 are.
ReadFull(data, off) ==
    LET left == ByteLen(data) - off
    IN  IF left = 0 THEN [n |-> 0, err |-> "EOF", buf |-> <<>>]
        ELSE IF left < 4
             THEN [n |-> left, err |-> "unexpected EOF",
                   buf |-> [k \in 1..left |-> ByteAt(data, off + k)]]
             ELSE [n |-> 4, err |-> NoError,
                   buf |-> [k \in 1..4 |-> ByteAt(data, off + k)]]

\* The loop of convertSaveFile, with the input handle at offset off and
\* read the bytes it has returned so far.  The input is read from the file
\* system as it is at each turn.
RECURSIVE ConvertLoop(_, _, _, _, _)
ConvertLoop(fsys, src, dst, off, read) ==
    LET r == ReadFull(fsys[src], off)
        got == Concat(read, Encode(r.buf))
    IN  IF r.err # NoError
        THEN IF r.err = "EOF"
             THEN [fs |-> fsys, err |-> NoError, read |-> got]
             ELSE [fs |-> fsys, err |-> ErrReadingSaveFile, read |-> got]
        ELSE IF r.n # 4
             THEN [fs |-> fsys, err |-> ErrUnexpectedReadSize, read |-> got]
             ELSE LET buf == LittleEndianPutUint32(BigEndianUint32(r.buf))
                  IN  ConvertLoop(Write(fsys, dst, Encode(buf)), src, dst, off + 4, got)

\* convertSaveFile(src, dst): the file system it leaves, the error it
\* returns and the bytes it read from src.
convertSaveFile(fsys, src, dst) ==
    ConvertLoop(Create(fsys, dst), src, dst, 0, <<>>)

\* if fileSize > fullmempakSize { fileData = fileData[:fullmempakSize] }
TrimToFull(fileData) ==
    IF ByteLen(fileData) > fullmempakSize
    THEN Slice(fileData, fullmempakSize)
    ELSE fileData

\* if fileSize <= mempakSize { fileData = append(fileData, make([]byte, mempakSize - fileSize)...) }
PadToMempak(fileData) ==
    IF ByteLen(fileData) <= mempakSize
    THEN Concat(fileData, Zeros(mempakSize - ByteLen(fileData)))
    ELSE fileData

\* Faulty variant: the copy already written is not taken off the target.
NumCopiesOffByOne(targetSize, fileSize) ==
    IF targetSize > fileSize
    THEN 1 + targetSize \div fileSize
    ELSE 1

\* numCopies := 1; if targetSize > fileSize { numCopies += (targetSize - fileSize) / fileSize }
NumCopies(targetSize, fileSize) ==
    IF targetSize > fileSize
    THEN 1 + (targetSize - fileSize) \div fileSize
    ELSE 1

\* Faulty variant: no final padding.
BytesToPadNone(targetSize, fileSize) ==
    0

\* bytesToPad := 0; if targetSize > fileSize { bytesToPad = (targetSize - fileSize) % fileSize }
BytesToPad(targetSize, fileSize) ==
    IF targetSize > fileSize
    THEN (targetSize - fileSize) % fileSize
    ELSE 0

\* for i := 1; i < numCopies; i++ { out.Write(fileData) }
RECURSIVE WriteCopies(_, _, _, _, _)
WriteCopies(fsys, dst, fileData, i, numCopies) ==
    IF i < numCopies
    THEN WriteCopies(Write(fsys, dst, fileData), dst, fileData, i + 1, numCopies)
    ELSE fsys

\* copyFile from the trimming of the payload on: the file system left.
Normalize(fsys, dst, read, targetSize) ==
    LET fileData == PadToMempak(TrimToFull(read))
        fileSize == ByteLen(fileData)
        first == Write(fsys, dst, fileData)
        numCopies == NumCopies(targetSize, fileSize)
        bytesToPad == BytesToPad(targetSize, fileSize)
        copied == IF numCopies > 1
                  THEN WriteCopies(first, dst, fileData, 1, numCopies)
                  ELSE first
    IN  IF bytesToPad > 0
        THEN Write(copied, dst, Zeros(bytesToPad))
        ELSE copied

\* Faulty variant: an empty source is normalised like any other.
copyFileNoEmptyCheck(fsys, src, dst, targetSize) ==
    LET created == Create(fsys, dst)
        read == created[src]
    IN  IF targetSize = 0
        THEN [fs |-> Write(created, dst, read), err |-> NoError, read |-> read]
        ELSE [fs |-> Normalize(created, dst, read, targetSize),
              err |-> NoError, read |-> read]

\* copyFile(src, dst, targetSize): the file system it leaves, the error it
\* returns and the bytes it read from src.
copyFile(fsys, src, dst, targetSize) ==
    LET created == Create(fsys, dst)
        read == created[src]
    IN  IF targetSize = 0
        THEN [fs |-> Write(created, dst, read), err |-> NoError, read |-> read]
        ELSE IF ByteLen(read) = 0
        THEN [fs |-> created, err |-> ErrSourceEmpty, read |-> read]
        ELSE [fs |-> Normalize(created, dst, read, targetSize),
              err |-> NoError, read |-> read]

---------------------------------------------------------------------------
(* main *)

ErrTooLarge == "Error: file is too large"

ErrUnsupportedExtension == "Errorr: unsupported file extension"

\* validateFile(filePath, false, maxSize, allowedExtensions, fileType) for a
\* path that names an existing regular file of the given size.
validateFile(filePath, size, maxSize, allowedExtensions) ==
    IF size > maxSize THEN ErrTooLarge
    ELSE IF Ext(filePath) \notin allowedExtensions THEN ErrUnsupportedExtension
    ELSE NoError

\* Faulty variant: the extension is never remapped.
OutputExtSame(saveExt) ==
    saveExt

\* outputExt := saveExt; if mappedExt, ok := aresSaveFormatMap[saveExt]; ok { outputExt = mappedExt }
OutputExt(saveExt) ==
    IF \E kv \in aresSaveFormatMap : kv[1] = saveExt
    THEN (CHOOSE kv \in aresSaveFormatMap : kv[1] = saveExt)[2]
    ELSE saveExt

\* fmt.Sprintf("%s-%s%s", cleanTitle, hashHex, outputExt)
OutputFileName(title, hash, outputExt) ==
    title \o <<DASH>> \o hash \o outputExt

\* Faulty variant: the ".pak" case is missing.
TargetSizeMpkOnly(saveExt) ==
    IF saveExt = EXT_MPK THEN fullmempakSize ELSE 0

\* targetSize := int64(0); switch saveExt { case ".mpk", ".pak": targetSize = fullmempakSize }
TargetSize(saveExt) ==
    IF saveExt = EXT_MPK \/ saveExt = EXT_PAK THEN fullmempakSize ELSE 0

---------------------------------------------------------------------------
(* The inputs of a run. *)

\* The bytes 1, 2, ..., n
Ramp(n) == Encode([i \in 1..n |-> i])

SmallPayloads == {Ramp(n) : n \in 0..MaxSmallLen}

\* One marked byte followed by len - 1 bytes fill
Big(len, fill) ==
    Concat(<<[b |-> 161, n |-> 1]>>, <<[b |-> fill, n |-> len - 1]>>)

BigLens ==
    {t + d : t \in {mempakSize, fullmempakSize, maxSaveFileSize},
             d \in (0 - MaxDelta)..MaxDelta}
    \cup {2 * mempakSize, mempakSize + mempakSize \div 2 + 1}

BigPayloads == {Big(len, fill) : len \in BigLens, fill \in {0, 178}}

\* The byte-swap loop is unfolded group by group, so saves with a byte-swap
\* extension are taken from the small payloads.
Payloads(saveExt) ==
    IF saveExt \in ConversionExtensions
    THEN SmallPayloads
    ELSE SmallPayloads \cup BigPayloads

\* "SUPER GAME!!" and 8 spaces
TitleSuperGame ==
    <<83, 85, 80, 69, 82, 32, 71, 65, 77, 69, 33, 33>> \o [i \in 1..8 |-> SPACE]

\* "AB !" and 16 spaces
TitleSpaceBang ==
    <<65, 66, 32, 33>> \o [i \in 1..16 |-> SPACE]

\* 20 spaces
TitleBlank == [i \in 1..20 |-> SPACE]

\* "Zelda-64", the two bytes of U+00E9, then NUL padding
TitleNulPadded ==
    <<90, 101, 108, 100, 97, 45, 54, 52, 195, 169>> \o [i \in 1..10 |-> 0]

\* "ABCDEFGHIJ0123456789"
TitleFull ==
    <<65, 66, 67, 68, 69, 70, 71, 72, 73, 74, 48, 49, 50, 51, 52, 53, 54, 55, 56, 57>>

Titles == {TitleSuperGame, TitleSpaceBang, TitleBlank, TitleNulPadded, TitleFull}

ValidMagics == {romFormats[mode] : mode \in DOMAIN romFormats}

InvalidMagics == {<<0, 0, 0, 0>>, <<128, 55, 18, 65>>}

\* A cartridge image: the magic, the title field at 0x20, every other byte
\* of the header its own offset, and RomBodyLen bytes after the header.
RomImage(magic, title) ==
    [i \in 1..(HeaderLen + RomBodyLen) |->
        IF i <= 4 THEN magic[i]
        ELSE IF i > TitleOffset /\ i <= TitleOffset + TitleLen THEN title[i - TitleOffset]
        ELSE i - 1]

RomImages ==
    {RomImage(m, t) : m \in ValidMagics, t \in Titles}
    \cup {RomImage(m, TitleSuperGame) : m \in InvalidMagics}
    \cup {SubSeq(RomImage(romFormats.z64, TitleSuperGame), 1, n) :
             n \in {0, 3, 4, HeaderLen - 1}}

\* "r.z64", "r.txt"
RomPaths == {<<114>> \o EXT_Z64, <<114>> \o EXT_TXT}

SaveExts == allowedSaveExtensions \cup {EXT_TXT}

\* "s" and the extension: a save file that is not the output file
PlainSave(saveExt) == <<115>> \o saveExt

\* The paths a save file may have: a name of its own, or (in the working
\* directory) the name main derives for the cartridge image.
SavePaths(romBytes, saveExt) ==
    LET id == processRom(romBytes)
    IN  {PlainSave(saveExt)}
        \cup (IF id.err = NoError
              THEN {OutputFileName(id.cleanTitle, id.hashHex, saveExt)}
              ELSE {})

---------------------------------------------------------------------------
(* State. *)

VARIABLES
    saveFile,    \* os.Args[1]
    romFile,     \* os.Args[2]
    rom,         \* the bytes of the cartridge image
    fs,          \* the save and output files: path -> content
    before,      \* fs at the start of the run
    pc,          \* main's position
    err,         \* the error main printed, NoError while there is none
    cleanTitle,
    hashHex,
    outputFile,
    op,          \* the transformation main called, "" before
    payload      \* the bytes the transformation read from the save file

vars == <<saveFile, romFile, rom, fs, before, pc, err, cleanTitle, hashHex,
          outputFile, op, payload>>

saveExt == Ext(saveFile)

Init ==
    /\ rom \in RomImages
    /\ romFile \in RomPaths
    /\ \E ext \in SaveExts :
         /\ saveFile \in SavePaths(rom, ext)
         /\ \E data \in Payloads(ext) : fs = (saveFile :> data)
    /\ before = fs
    /\ pc = "validateSave"
    /\ err = NoError
    /\ cleanTitle = <<>>
    /\ hashHex = <<>>
    /\ outputFile = <<>>
    /\ op = ""
    /\ payload = <<>>

\* main, lines 443-448
ValidateSave ==
    /\ pc = "validateSave"
    /\ LET e == validateFile(saveFile, ByteLen(fs[saveFile]), maxSaveFileSize,
                             allowedSaveExtensions)
       IN  /\ err' = e
           /\ pc' = IF e = NoError THEN "validateRom" ELSE "exit"
    /\ UNCHANGED <<saveFile, romFile, rom, fs, before, cleanTitle, hashHex,
                   outputFile, op, payload>>

\* main, lines 450-454
ValidateRom ==
    /\ pc = "validateRom"
    /\ LET e == validateFile(romFile, Len(rom), maxRomFileSize, allowedRomExtensions)
       IN  /\ err' = e
           /\ pc' = IF e = NoError THEN "processRom" ELSE "exit"
    /\ UNCHANGED <<saveFile, romFile, rom, fs, before, cleanTitle, hashHex,
                   outputFile, op, payload>>

\* main, lines 456-460
ProcessRom ==
    /\ pc = "processRom"
    /\ LET id == processRom(rom)
       IN  /\ err' = id.err
           /\ cleanTitle' = id.cleanTitle
           /\ hashHex' = id.hashHex
           /\ pc' = IF id.err = NoError THEN "nameOutput" ELSE "exit"
    /\ UNCHANGED <<saveFile, romFile, rom, fs, before, outputFile, op, payload>>

\* main, lines 462-466
NameOutput ==
    /\ pc = "nameOutput"
    /\ outputFile' = OutputFileName(cleanTitle, hashHex, OutputExt(saveExt))
    /\ pc' = "transform"
    /\ UNCHANGED <<saveFile, romFile, rom, fs, before, err, cleanTitle, hashHex, op,
                   payload>>

\* main, lines 469-473
ConvertSave ==
    /\ pc = "transform"
    /\ saveExt \in ConversionExtensions
    /\ LET r == convertSaveFile(fs, saveFile, outputFile)
       IN  /\ fs' = r.fs
           /\ err' = r.err
           /\ payload' = r.read
    /\ op' = "convertSaveFile"
    /\ pc' = "exit"
    /\ UNCHANGED <<saveFile, romFile, rom, before, cleanTitle, hashHex, outputFile>>

\* main, lines 474-487
CopySave ==
    /\ pc = "transform"
    /\ saveExt \notin ConversionExtensions
    /\ LET r == copyFile(fs, saveFile, outputFile, TargetSize(saveExt))
       IN  /\ fs' = r.fs
           /\ err' = r.err
           /\ payload' = r.read
    /\ op' = "copyFile"
    /\ pc' = "exit"
    /\ UNCHANGED <<saveFile, romFile, rom, before, cleanTitle, hashHex, outputFile>>

Next ==
    \/ ValidateSave
    \/ ValidateRom
    \/ ProcessRom
    \/ NameOutput
    \/ ConvertSave
    \/ CopySave

Spec == Init /\ [][Next]_vars

---------------------------------------------------------------------------
(* Properties. *)

\* The run has ended after calling transformation o.
Ran(o) == pc = "exit" /\ op = o

\* processRom has returned.
RomProcessed ==
    \/ pc \in {"nameOutput", "transform"}
    \/ op # ""
    \/ err \in {ErrReadingRomHeader, ErrUnsupportedRomFormat}

\* The errors of cartridge identification and of the save transformations.
CoreErrors ==
    {ErrReadingRomHeader, ErrUnsupportedRomFormat, ErrReadingSaveFile,
     ErrUnexpectedReadSize, ErrSourceEmpty}

\* When the output path names another file than the save file, the payload
\* a transformation reads is the content the save file had before the run.
ReadsWholeSource ==
    (op # "" /\ saveFile # outputFile) => payload = before[saveFile]

\* data repeated four times
Repeat4(data) ==
    Concat(Concat(Concat(data, data), data), data)

\* C1: whenever cartridge identification or a save transformation returns
\* an error, no file exists at the output path when the run ends.
C1_NoPartialOutputOnFailure ==
    (pc = "exit" /\ err \in CoreErrors) => outputFile \notin DOMAIN fs

\* C2: size normalization with target 131072 of a non-empty payload succeeds
\* and leaves a destination of exactly 131072 bytes, whatever the payload
\* length.
C2_NormalizedLength ==
    /\ ReadsWholeSource
    /\ (Ran("copyFile") /\ TargetSize(saveExt) = 131072 /\ payload # <<>>)
         => /\ err = NoError
            /\ ByteLen(fs[outputFile]) = 131072

\* A payload whose length (49153) does not divide the target was normalised.
C2_Witness ==
    /\ Ran("copyFile")
    /\ saveFile # outputFile
    /\ ByteLen(before[saveFile]) = 49153
    /\ err = NoError
    /\ ByteLen(fs[outputFile]) = 131072

\* C3: with unit 32768 and target 131072, a payload of one unit yields the
\* unit four times and nothing else, a shorter non-empty payload is
\* zero-padded to one unit and that unit is written four times, and a
\* payload longer than 131072 bytes yields its first 131072 bytes.
C3_NormalizedContent ==
    /\ ReadsWholeSource
    /\ (Ran("copyFile") /\ TargetSize(saveExt) = 131072)
         => /\ ByteLen(payload) = 32768
                 => fs[outputFile] = Repeat4(payload)
            /\ (ByteLen(payload) > 0 /\ ByteLen(payload) < 32768)
                 => fs[outputFile] =
                      Repeat4(Concat(payload, Zeros(32768 - ByteLen(payload))))
            /\ ByteLen(payload) > 131072
                 => fs[outputFile] = Slice(payload, 131072)

\* A 5-byte payload was padded to one unit and written four times.
C3_Witness ==
    /\ Ran("copyFile")
    /\ saveExt = EXT_PAK
    /\ saveFile # outputFile
    /\ before[saveFile] = Ramp(5)
    /\ fs[outputFile] = Repeat4(Concat(Ramp(5), Zeros(32763)))

\* C4: a payload whose length is a multiple of 4 is byte-swapped
\* successfully; the output has the payload's length, each 4-byte group of
\* it is the reversed group of the payload, and byte-swapping the output
\* gives the payload back.
C4_ByteSwapRoundTrip ==
    /\ ReadsWholeSource
    /\ (Ran("convertSaveFile") /\ ByteLen(payload) % 4 = 0)
         => /\ err = NoError
            /\ ByteLen(fs[outputFile]) = ByteLen(payload)
            /\ \A g \in 0..(ByteLen(payload) \div 4 - 1) : \A k \in 1..4 :
                 ByteAt(fs[outputFile], 4 * g + k) = ByteAt(payload, 4 * g + 5 - k)
            /\ LET again == convertSaveFile(("in" :> fs[outputFile]), "in", "out")
               IN  /\ again.err = NoError
                   /\ again.fs["out"] = payload

\* An 8-byte save was byte-swapped into another file.
C4_Witness ==
    /\ Ran("convertSaveFile")
    /\ saveFile # outputFile
    /\ before[saveFile] = Ramp(8)
    /\ err = NoError
    /\ fs[outputFile] = Encode(<<4, 3, 2, 1, 8, 7, 6, 5>>)

\* C5: a payload whose length is not a multiple of 4 makes the byte-swap
\* path return an error, never success.
C5_MisalignedRejected ==
    /\ ReadsWholeSource
    /\ (Ran("convertSaveFile") /\ ByteLen(payload) % 4 # 0)
         => err = ErrReadingSaveFile

\* A 5-byte save was given to the byte-swap path.
C5_Witness ==
    /\ Ran("convertSaveFile")
    /\ saveFile # outputFile
    /\ before[saveFile] = Ramp(5)
    /\ err = ErrReadingSaveFile

\* C6: an empty payload fails with the empty-source error when size
\* normalization is required, and is copied to an empty output by a direct
\* copy.
C6_EmptySourceAsymmetry ==
    /\ ReadsWholeSource
    /\ (Ran("copyFile") /\ payload = <<>>)
         => IF TargetSize(saveExt) > 0
            THEN err = ErrSourceEmpty
            ELSE err = NoError /\ fs[outputFile] = <<>>

\* An empty .eep save was copied into another file.
C6_Witness ==
    /\ Ran("copyFile")
    /\ saveExt = EXT_EEP
    /\ saveFile # outputFile
    /\ before[saveFile] = <<>>
    /\ err = NoError
    /\ fs[outputFile] = <<>>

\* The header of the cartridge image, when the image holds one.
RawHeader == SubSeq(rom, 1, HeaderLen)

Magic == SubSeq(rom, 1, 4)

\* The mode each of the three magic sequences stands for.
ExpectedMode ==
    CASE Magic = <<128, 55, 18, 64>> -> "z64"
      [] Magic = <<64, 18, 55, 128>> -> "n64"
      [] Magic = <<55, 128, 64, 18>> -> "v64"
      [] OTHER -> "none"

\* C7: the first 4 header bytes alone decide the byte order: 80 37 12 40 is
\* read as big-endian, 40 12 37 80 as word-swapped, 37 80 40 12 as
\* halfword-swapped, and with any other 4 bytes processRom fails with the
\* unsupported-format error and returns an empty title and an empty hash.
C7_MagicDecidesByteOrder ==
    (RomProcessed /\ Len(rom) >= HeaderLen)
      => IF ExpectedMode = "none"
         THEN /\ pc = "exit"
              /\ err = ErrUnsupportedRomFormat
              /\ cleanTitle = <<>>
              /\ hashHex = <<>>
         ELSE /\ err \notin {ErrReadingRomHeader, ErrUnsupportedRomFormat}
              /\ detectRomFormat(Magic) = [mode |-> ExpectedMode, err |-> NoError]
              /\ cleanTitle =
                   extractCleanTitle(convertHeaderEndianness(RawHeader, ExpectedMode))

\* processRom refused a cartridge image that begins with four zero bytes.
C7_Witness ==
    /\ Len(rom) >= HeaderLen
    /\ Magic = <<0, 0, 0, 0>>
    /\ pc = "exit"
    /\ err = ErrUnsupportedRomFormat
    /\ cleanTitle = <<>>
    /\ hashHex = <<>>

\* C8: on every 64-byte header the big-endian transform is the identity,
\* and the word-swapped and the halfword-swapped transforms each give the
\* header back when applied twice.
C8_HeaderNormalizationAlgebra ==
    Len(rom) >= HeaderLen
      => /\ convertHeaderEndianness(RawHeader, "z64") = RawHeader
         /\ convertHeaderEndianness(
                convertHeaderEndianness(RawHeader, "n64"), "n64") = RawHeader
         /\ convertHeaderEndianness(
                convertHeaderEndianness(RawHeader, "v64"), "v64") = RawHeader
         /\ Len(convertHeaderEndianness(RawHeader, "n64")) = HeaderLen
         /\ Len(convertHeaderEndianness(RawHeader, "v64")) = HeaderLen

\* processRom has normalised a word-swapped header that the transform changes.
C8_Witness ==
    /\ RomProcessed
    /\ Len(rom) >= HeaderLen
    /\ ExpectedMode = "n64"
    /\ err = NoError
    /\ convertHeaderEndianness(RawHeader, "n64") # RawHeader
    /\ cleanTitle = extractCleanTitle(convertHeaderEndianness(RawHeader, "n64"))

\* sub holds bytes of full in their order in full.
RECURSIVE IsSubsequence(_, _)
IsSubsequence(sub, full) ==
    IF sub = <<>> THEN TRUE
    ELSE IF full = <<>> THEN FALSE
    ELSE IF sub[1] = full[1] THEN IsSubsequence(Tail(sub), Tail(full))
    ELSE IsSubsequence(sub, Tail(full))

\* C9: the clean title holds only characters of A-Z, a-z, 0-9 and the space,
\* in the order they have in the title field of the normalized header, is at
\* most 20 characters long and does not end with a space.
C9_CleanTitle ==
    (RomProcessed /\ err \notin {ErrReadingRomHeader, ErrUnsupportedRomFormat})
      => LET field == SubSeq(convertHeaderEndianness(RawHeader, ExpectedMode),
                             33, 52)
         IN  /\ \A i \in 1..Len(cleanTitle) :
                  \/ cleanTitle[i] \in 65..90
                  \/ cleanTitle[i] \in 97..122
                  \/ cleanTitle[i] \in 48..57
                  \/ cleanTitle[i] = 32
             /\ IsSubsequence(cleanTitle, field)
             /\ Len(cleanTitle) <= 20
             /\ (cleanTitle # <<>> => cleanTitle[Len(cleanTitle)] # 32)

\* The output extension the registry gives each allowed save extension.
ExpectedOutputExt ==
    CASE saveExt = EXT_EEPROM -> EXT_EEP
      [] saveExt = EXT_FLASH -> EXT_FLA
      [] saveExt = EXT_PAK -> EXT_MPK
      [] saveExt = EXT_RAM -> EXT_SRA
      [] OTHER -> saveExt

\* C10: on a successful run the destination is named cleanTitle, "-",
\* contentHash and the save extension remapped by the registry (.eeprom to
\* .eep, .flash to .fla, .pak to .mpk, .ram to .sra, any other unchanged),
\* so that its extension is one of .eep, .fla, .mpk, .sra.
C10_OutputFileName ==
    (pc = "exit" /\ op # "" /\ err = NoError)
      => /\ outputFile = cleanTitle \o <<45>> \o hashHex \o ExpectedOutputExt
         /\ cleanTitle = processRom(rom).cleanTitle
         /\ hashHex = processRom(rom).hashHex
         /\ ExpectedOutputExt \in {EXT_EEP, EXT_FLA, EXT_MPK, EXT_SRA}
         /\ Ext(outputFile) = ExpectedOutputExt
         /\ outputFile \in DOMAIN fs

\* A .ram save was written to a file named after the cartridge, with .sra.
C10_Witness ==
    /\ pc = "exit"
    /\ op = "copyFile"
    /\ err = NoError
    /\ saveExt = EXT_RAM
    /\ Ext(outputFile) = EXT_SRA
    /\ cleanTitle # <<>>
    /\ outputFile = cleanTitle \o <<45>> \o hashHex \o EXT_SRA
    /\ outputFile \in DOMAIN fs

\* C11: the save file is never mutated: at every point of every run, also
\* when the derived output name is the save file's own path, the save file
\* holds the bytes it held before the run.
C11_SourceNeverMutated ==
    /\ saveFile \in DOMAIN fs
    /\ fs[saveFile] = before[saveFile]

\* C12: a cartridge image shorter than 64 bytes, also an empty one and one
\* of 4 to 63 bytes that begins with a valid magic, makes processRom fail
\* with the header-read error; no title and no hash are returned, and the
\* run ends there with no file touched.
C12_HeaderTruncated ==
    (RomProcessed /\ Len(rom) < 64)
      => /\ pc = "exit"
         /\ err = ErrReadingRomHeader
         /\ cleanTitle = <<>>
         /\ hashHex = <<>>
         /\ outputFile = <<>>
         /\ op = ""
         /\ fs = before

\* processRom refused a 63-byte image that begins with the big-endian magic.
C12_Witness ==
    /\ Len(rom) = 63
    /\ SubSeq(rom, 1, 4) = <<128, 55, 18, 64>>
    /\ pc = "exit"
    /\ err = ErrReadingRomHeader
    /\ cleanTitle = <<>>
    /\ hashHex = <<>>

\* C13: the byte-swap set {.sra, .fla} and the non-conversion set {.eep,
\* .eeprom, .flash, .mpk, .pak, .ram} are disjoint and together are the
\* allowed save extensions, and a validated save runs exactly one path:
\* .sra and .fla the byte swap, .mpk and .pak the size normalization to
\* 131072 bytes, .eep, .eeprom, .flash and .ram the direct copy (target 0,
\* no byte swap), .flash and .ram being renamed to .fla and .sra.
C13_PathDispatch ==
    /\ ConversionExtensions = {EXT_SRA, EXT_FLA}
    /\ nonConversionExtensions =
         {EXT_EEP, EXT_EEPROM, EXT_FLASH, EXT_MPK, EXT_PAK, EXT_RAM}
    /\ ConversionExtensions \cap nonConversionExtensions = {}
    /\ ConversionExtensions \cup nonConversionExtensions = allowedSaveExtensions
    /\ pc = "transform"
         => /\ saveExt \in allowedSaveExtensions
            /\ (saveExt \in ConversionExtensions) # (saveExt \in nonConversionExtensions)
    /\ (pc = "exit" /\ op # "")
         => /\ saveExt \in allowedSaveExtensions
            /\ saveExt \in {EXT_SRA, EXT_FLA}
                 => op = "convertSaveFile"
            /\ saveExt \in {EXT_MPK, EXT_PAK}
                 => /\ op = "copyFile"
                    /\ TargetSize(saveExt) = 131072
                    /\ IF payload = <<>>
                       THEN err = ErrSourceEmpty
                       ELSE err = NoError /\ ByteLen(fs[outputFile]) = 131072
            /\ saveExt \in {EXT_EEP, EXT_EEPROM, EXT_FLASH, EXT_RAM}
                 => /\ op = "copyFile"
                    /\ TargetSize(saveExt) = 0
                    /\ err = NoError
                    /\ fs[outputFile] = payload
            /\ saveExt = EXT_FLASH => Ext(outputFile) = EXT_FLA
            /\ saveExt = EXT_RAM => Ext(outputFile) = EXT_SRA

\* A 4-byte .flash save was copied byte for byte into a .fla file.
C13_Witness ==
    /\ Ran("copyFile")
    /\ saveExt = EXT_FLASH
    /\ saveFile # outputFile
    /\ before[saveFile] = Ramp(4)
    /\ err = NoError
    /\ Ext(outputFile) = EXT_FLA
    /\ fs[outputFile] = Ramp(4)

=============================================================================
